---- MODULE Spec2Model ----
(***************************************************************************)
(* GitHub Issue Analyzer: the fetch - cache - analyze pipeline.            *)
(*                                                                         *)
(*   GitHubService  (github.ts)  validateRepoFormat, fetchAllIssues        *)
(*   CacheService   (cache.ts)   loadCache, saveCache, storeIssues,        *)
(*                               getIssues, hasRepo                        *)
(*   LLMService     (llm.ts)     constructor, analyzeIssues                *)
(*   index.ts                    POST /scan, POST /analyze, GET /health    *)
(*                                                                         *)
(* JavaScript strings are sequences of one-character strings; the literal  *)
(* pieces of a template string are single tokens of such a sequence.       *)
(***************************************************************************)
EXTENDS Integers, Sequences, FiniteSets, TLC

VARIABLES
  file,      \* issues_cache.json: [exists, doc]
  now,       \* the wall clock, in milliseconds
  provider,  \* LLMService.provider, fixed by the constructor
  req,       \* the request handlers in flight, one per connection slot
  lastResp,  \* the HTTP response the last step sent, if it sent one; the
             \* mark of a restart when the last step was one
  scanned,   \* history: per repository, the issues of its last successful scan
  val,       \* harness of validateRepoFormat
  eng,       \* harness of LLMService.analyzeIssues
  rt,        \* harness of saveCache / loadCache
  proc,      \* harness of the process: its environment, start and dispatches
  st,        \* harness of storeIssues
  track      \* whether the handlers keep the history of overlapping stores

vars == <<file, now, provider, req, lastResp, scanned, val, eng, rt, proc, st, track>>

(***************************************************************************)
(* Bounds of the model.                                                    *)
(***************************************************************************)
MaxReq == 2        \* request handlers in flight at once
MaxClock == 1      \* clock ticks
MaxRepoLen == 5    \* length of the strings given to validateRepoFormat
MaxBodyExtra == 2  \* how far a body may exceed the truncation limit
MaxEngIssues == 2  \* issues handed to analyzeIssues directly
MaxPages == 3      \* non-empty pages the host serves of one repository

(***************************************************************************)
(* Program constants.                                                      *)
(***************************************************************************)
BodyLimit == 500   \* issue.body.substring(0, 500)
PerPage == 100     \* const perPage = 100
MaxTokens == 4000  \* max_tokens of both providers

(***************************************************************************)
(* Strings.                                                                *)
(***************************************************************************)
Slash == "/"

RECURSIVE SeqsUpTo(_, _)
SeqsUpTo(S, n) ==
  IF n = 0 THEN {<<>>}
  ELSE LET shorter == SeqsUpTo(S, n - 1)
       IN  shorter \cup {Append(s, c) : s \in {t \in shorter : Len(t) = n - 1}, c \in S}

Includes(s, c) == \E i \in 1..Len(s) : s[i] = c

\* String.prototype.split with a one-character separator: the segments
\* between the separators, empty segments kept.
RECURSIVE SplitFrom(_, _, _, _)
SplitFrom(s, c, i, cur) ==
  IF i > Len(s) THEN <<cur>>
  ELSE IF s[i] = c THEN <<cur>> \o SplitFrom(s, c, i + 1, <<>>)
  ELSE SplitFrom(s, c, i + 1, Append(cur, s[i]))

Split(s, c) == SplitFrom(s, c, 1, <<>>)

\* String.prototype.substring(0, n)
Substring0(s, n) == SubSeq(s, 1, IF Len(s) < n THEN Len(s) ELSE n)

Digit(d) == CASE d = 0 -> "0" [] d = 1 -> "1" [] d = 2 -> "2" [] d = 3 -> "3"
              [] d = 4 -> "4" [] d = 5 -> "5" [] d = 6 -> "6" [] d = 7 -> "7"
              [] d = 8 -> "8" [] d = 9 -> "9"

\* `${n}` for a non-negative integer
RECURSIVE NumToString(_)
NumToString(n) ==
  IF n < 10 THEN <<Digit(n)>> ELSE Append(NumToString(n \div 10), Digit(n % 10))

(***************************************************************************)
(* GitHubService.validateRepoFormat                                        *)
(***************************************************************************)
validateRepoFormatAny(repo) == TRUE

validateRepoFormat(repo) ==
  Includes(repo, Slash) /\ Len(Split(repo, Slash)) = 2

(***************************************************************************)
(* Values of types.ts.  A string | null value is [null, s].                *)
(***************************************************************************)
Str(s) == [null |-> FALSE, s |-> s]
Null == [null |-> TRUE, s |-> <<>>]

\* a JavaScript string or null used as a condition
TruthyStr(v) == ~v.null /\ v.s # <<>>

\* `v || ""`
OrEmpty(v) == IF TruthyStr(v) THEN v ELSE Str(<<>>)

\* interface GitHubIssue
GitHubIssue(id, title, body, url, created) ==
  [id |-> id, title |-> title, body |-> body, html_url |-> url, created_at |-> created]

\* interface CachedRepo
CachedRepo(issues, stamp) == [issues |-> issues, last_updated |-> stamp]

(***************************************************************************)
(* JavaScript objects used as maps (interface Cache): the own properties   *)
(* in insertion order, and the properties inherited from Object.prototype. *)
(***************************************************************************)
EmptyObject == [keys |-> <<>>, at |-> <<>>]

KeyConstructor == <<"c","o","n","s","t","r","u","c","t","o","r">>
KeyToString == <<"t","o","S","t","r","i","n","g">>
KeyProto == <<"_","_","p","r","o","t","o","_","_">>

\* names every ordinary object inherits
ObjectPrototypeKeys == {KeyConstructor, KeyToString, KeyProto}

OwnKeys(obj) == {obj.keys[i] : i \in 1..Len(obj.keys)}

\* `key in obj`
HasProperty(obj, key) == key \in OwnKeys(obj) \/ key \in ObjectPrototypeKeys

\* `obj[key]`: an own entry, a built-in of the prototype, or undefined
Entry(v) == [kind |-> "entry", entry |-> v]
Builtin == [kind |-> "builtin", entry |-> CachedRepo(<<>>, <<>>)]
Undefined == [kind |-> "undefined", entry |-> CachedRepo(<<>>, <<>>)]

GetProperty(obj, key) ==
  IF key \in OwnKeys(obj) THEN Entry(obj.at[key])
  ELSE IF key \in ObjectPrototypeKeys THEN Builtin
  ELSE Undefined

\* `obj[key] = v`; assigning __proto__ replaces the prototype and adds no
\* own property
SetProperty(obj, key, v) ==
  IF key = KeyProto THEN obj
  ELSE IF key \in OwnKeys(obj)
       THEN [obj EXCEPT !.at = [k \in OwnKeys(obj) |-> IF k = key THEN v ELSE obj.at[k]]]
       ELSE [keys |-> Append(obj.keys, key),
             at |-> [k \in OwnKeys(obj) \cup {key} |-> IF k = key THEN v ELSE obj.at[k]]]

(***************************************************************************)
(* JSON.  A document is a tree: an object is the sequence of its members   *)
(* <<name, value>>, an array the sequence of its elements, a scalar is     *)
(* [t, v] with v the characters written.                                   *)
(***************************************************************************)
JString(s) == [t |-> "string", v |-> s]
JNull == [t |-> "null", v |-> <<>>]
JNumber(n) == [t |-> "number", v |-> NumToString(n)]

DigitValue(c) == CASE c = "0" -> 0 [] c = "1" -> 1 [] c = "2" -> 2 [] c = "3" -> 3
                   [] c = "4" -> 4 [] c = "5" -> 5 [] c = "6" -> 6 [] c = "7" -> 7
                   [] c = "8" -> 8 [] c = "9" -> 9

RECURSIVE StringToNum(_)
StringToNum(ds) ==
  IF Len(ds) = 0 THEN 0
  ELSE 10 * StringToNum(SubSeq(ds, 1, Len(ds) - 1)) + DigitValue(ds[Len(ds)])

\* the value of member `name`; of two members of one name the later wins
Member(members, name) ==
  LET last == CHOOSE i \in 1..Len(members) :
                /\ members[i][1] = name
                /\ \A j \in (i + 1)..Len(members) : members[j][1] # name
  IN  members[last][2]

StringifyIssue(issue) ==
  << <<"id", JNumber(issue.id)>>,
     <<"title", JString(issue.title)>>,
     <<"body", IF issue.body.null THEN JNull ELSE JString(issue.body.s)>>,
     <<"html_url", JString(issue.html_url)>>,
     <<"created_at", JString(issue.created_at)>> >>

ParseIssue(members) ==
  GitHubIssue(StringToNum(Member(members, "id").v),
              Member(members, "title").v,
              IF Member(members, "body").t = "null" THEN Null
              ELSE Str(Member(members, "body").v),
              Member(members, "html_url").v,
              Member(members, "created_at").v)

StringifyRepo(entry) ==
  << <<"issues", [i \in 1..Len(entry.issues) |-> StringifyIssue(entry.issues[i])]>>,
     <<"last_updated", JString(entry.last_updated)>> >>

ParseRepo(members) ==
  LET arr == Member(members, "issues")
  IN  CachedRepo([i \in 1..Len(arr) |-> ParseIssue(arr[i])],
                 Member(members, "last_updated").v)

\* JSON.stringify(cache, null, 2): the own properties in insertion order
JsonStringify(cache) ==
  [i \in 1..Len(cache.keys) |-> <<cache.keys[i], StringifyRepo(cache.at[cache.keys[i]])>>]

\* JSON.parse: every member becomes an own property, at the place of the
\* first member of its name and with the value of the last one
RECURSIVE FirstOccurrences(_, _)
FirstOccurrences(doc, i) ==
  IF i > Len(doc) THEN <<>>
  ELSE IF \E j \in 1..(i - 1) : doc[j][1] = doc[i][1]
       THEN FirstOccurrences(doc, i + 1)
       ELSE <<doc[i][1]>> \o FirstOccurrences(doc, i + 1)

JsonParse(doc) ==
  LET ks == FirstOccurrences(doc, 1)
  IN  [keys |-> ks,
       at |-> [k \in {ks[i] : i \in 1..Len(ks)} |-> ParseRepo(Member(doc, k))]]

(***************************************************************************)
(* CacheService (cache.ts).  The file is absent, or holds text: the        *)
(* document when the text parses, anything else when it does not.          *)
(***************************************************************************)
AbsentFile == [exists |-> FALSE, parses |-> FALSE, doc |-> <<>>]
FileOf(doc) == [exists |-> TRUE, parses |-> TRUE, doc |-> doc]
GarbledFile == [exists |-> TRUE, parses |-> FALSE, doc |-> <<>>]

\* loadCache when fs.readFileSync succeeds (readOk) or throws: an error of
\* the read or of JSON.parse is caught and the empty object returned
loadCacheFrom(f, readOk) ==
  IF f.exists
  THEN IF readOk /\ f.parses THEN JsonParse(f.doc) ELSE EmptyObject
  ELSE EmptyObject

\* loadCache with a read that succeeds, as the request handlers are taken
\* to meet it
loadCache(f) == loadCacheFrom(f, TRUE)

saveCacheNoWrite(f, cache, writeOk) == [file |-> f, threw |-> FALSE]

saveCacheSwallowing(f, cache, writeOk) ==
  [file |-> IF writeOk THEN FileOf(JsonStringify(cache)) ELSE f, threw |-> FALSE]

\* fs.writeFileSync: the file written, or the error of a failed write, which
\* saveCache rethrows; a failed write is taken to leave the file as it was
saveCache(f, cache, writeOk) ==
  IF writeOk THEN [file |-> FileOf(JsonStringify(cache)), threw |-> FALSE]
  ELSE [file |-> f, threw |-> TRUE]

\* new Date().toISOString(), the date part kept as one token
Pad3(ds) == IF Len(ds) = 1 THEN <<"0", "0">> \o ds
            ELSE IF Len(ds) = 2 THEN <<"0">> \o ds ELSE ds

toISOString(t) ==
  <<"1970-01-01T00:00:0", Digit((t \div 1000) % 10), ".">>
    \o Pad3(NumToString(t % 1000)) \o <<"Z">>

storeIssuesWithoutLoad(f, repo, issues, t, writeOk) ==
  saveCache(f, SetProperty(EmptyObject, repo, CachedRepo(issues, toISOString(t))), writeOk)

storeIssuesMerging(f, repo, issues, t, writeOk) ==
  LET cache == loadCache(f)
      old == IF repo \in OwnKeys(cache) THEN cache.at[repo].issues ELSE <<>>
  IN  saveCache(f, SetProperty(cache, repo, CachedRepo(old \o issues, toISOString(t))),
                writeOk)

storeIssuesFrom(f, repo, issues, t, readOk, writeOk) ==
  LET cache == loadCacheFrom(f, readOk)
  IN  saveCache(f, SetProperty(cache, repo, CachedRepo(issues, toISOString(t))), writeOk)

storeIssues(f, repo, issues, t, writeOk) ==
  storeIssuesFrom(f, repo, issues, t, TRUE, writeOk)

\* `cache[repo] || null`
NullEntry == [kind |-> "null", entry |-> CachedRepo(<<>>, <<>>)]

getIssues(f, repo) ==
  LET v == GetProperty(loadCache(f), repo)
  IN  IF v.kind = "undefined" THEN NullEntry ELSE v

hasRepo(f, repo) == HasProperty(loadCache(f), repo)

(***************************************************************************)
(* The source host.  An item of the issues listing carries the fields the  *)
(* fetcher reads and, for a pull request, the pull_request marker.         *)
(***************************************************************************)
HostItem(id, body, pr) ==
  [id |-> id,
   title |-> <<"T">> \o NumToString(id),
   body |-> body,
   html_url |-> <<"h", "/">> \o NumToString(id),
   created_at |-> <<"2", "0">> \o NumToString(id),
   pull_request |-> pr]

IssueNoBody == HostItem(1, Null, FALSE)
IssueWithBody == HostItem(12, Str(<<"x", "y">>), FALSE)
IssueEmptyBody == HostItem(4, Str(<<>>), FALSE)
PullRequest == HostItem(3, Str(<<"x">>), TRUE)

HostItems == {IssueNoBody, IssueWithBody, IssueEmptyBody, PullRequest}

\* the ids of the items the host lists as pull requests
PullRequestIds == {it.id : it \in {x \in HostItems : x.pull_request}}

RepoAB == <<"a", "/", "b">>
RepoBA == <<"b", "/", "a">>
RepoCD == <<"c", "/", "d">>
RepoSlashB == <<"/", "b">>
RepoNoSlash == <<"a", "b", "c">>

\* The listings a repository may have on the host, each the sequence of its
\* non-empty pages; the listing may change between two page requests.  a/b
\* has no item or two pages of them, c/d has up to MaxPages pages, each any
\* of HostPages, among them a page of a pull request alone; the other
\* repositories have no item.
HostPages ==
  { <<PullRequest>>, <<IssueNoBody, PullRequest>>, <<IssueWithBody, IssueEmptyBody>> }

HostListings(repo) ==
  IF repo = RepoAB
  THEN { <<>>, << <<IssueNoBody, PullRequest>>, <<IssueWithBody, IssueEmptyBody>> >> }
  ELSE IF repo = RepoCD THEN SeqsUpTo(HostPages, MaxPages)
  ELSE { <<>> }

\* the non-empty pages the host may answer a request for page n with
PagesAt(repo, n) == {L[n] : L \in {M \in HostListings(repo) : Len(M) >= n}}

(***************************************************************************)
(* GitHubService.fetchAllIssues: what one iteration of the loop does with  *)
(* the page it received.                                                   *)
(***************************************************************************)
ProjectItem(item) ==
  GitHubIssue(item.id, item.title, OrEmpty(item.body), item.html_url, item.created_at)

PageIssuesKeepingPulls(page) == [i \in 1..Len(page) |-> ProjectItem(page[i])]

RECURSIVE PageIssuesFrom(_, _)
PageIssuesFrom(page, i) ==
  IF i > Len(page) THEN <<>>
  ELSE IF page[i].pull_request THEN PageIssuesFrom(page, i + 1)
  ELSE <<ProjectItem(page[i])>> \o PageIssuesFrom(page, i + 1)

PageIssuesReversed(page) ==
  LET kept == PageIssuesFrom(page, 1)
  IN  [i \in 1..Len(kept) |-> kept[Len(kept) + 1 - i]]

PageIssues(page) == PageIssuesFrom(page, 1)

\* params of every page request, beside the page number
FetchQuery == [state |-> "open", per_page |-> PerPage]

(***************************************************************************)
(* LLMService (llm.ts).                                                    *)
(***************************************************************************)
\* the constructor of the variant of llm.ts that knows Anthropic only
SelectProviderAnthropicOnly(anthropicKey, openaiKey) ==
  IF TruthyStr(anthropicKey) THEN "anthropic" ELSE "none"

\* constructor: the provider for the credentials of the environment
SelectProvider(anthropicKey, openaiKey) ==
  IF TruthyStr(anthropicKey) THEN "anthropic"
  ELSE IF TruthyStr(openaiKey) THEN "openai"
  ELSE "none"

CurrentProviderFromEnv(selected, env) ==
  IF TruthyStr(env.anthropic) THEN "anthropic"
  ELSE IF TruthyStr(env.openai) THEN "openai"
  ELSE "none"

\* this.provider as analyzeIssues reads it: the field the constructor set;
\* process.env is not read again
CurrentProvider(selected, env) == selected

\* `this.provider === "anthropic"` of the dispatch
DispatchTarget(prov) == IF prov = "anthropic" THEN "anthropic" ELSE "openai"

NoDescription == <<"No description">>

BodyTextUntruncated(issue) ==
  IF TruthyStr(issue.body) THEN issue.body.s ELSE NoDescription

BodyText(issue) ==
  IF TruthyStr(issue.body) THEN Substring0(issue.body.s, BodyLimit)
  ELSE NoDescription

IssueBlock(issue) ==
  <<"\nIssue ID: ">> \o NumToString(issue.id)
    \o <<"\nTitle: ">> \o issue.title
    \o <<"\nBody: ">> \o BodyText(issue)
    \o <<"\nURL: ">> \o issue.html_url
    \o <<"\nCreated: ">> \o issue.created_at
    \o <<"\n---">>

\* issues.map(...).join("\n")
RECURSIVE JoinBlocks(_, _)
JoinBlocks(issues, i) ==
  IF i > Len(issues) THEN <<>>
  ELSE IF i = Len(issues) THEN IssueBlock(issues[i])
  ELSE IssueBlock(issues[i]) \o <<"\n">> \o JoinBlocks(issues, i + 1)

IssuesText(issues) == JoinBlocks(issues, 1)

SystemPrompt == <<"You are an expert software project analyst.">>

FullPromptInstructionLast(repo, issues, userPrompt) ==
  <<"Analyze the following GitHub issues from the repository '">> \o repo
    \o <<"'.\n\n">>
    \o <<"\n\nHere are the issues:\n\n">> \o IssuesText(issues)
    \o <<"\n\nPlease provide a comprehensive analysis based on the request above.">>
    \o userPrompt

\* the template literal of fullPrompt
FullPrompt(repo, issues, userPrompt) ==
  <<"Analyze the following GitHub issues from the repository '">> \o repo
    \o <<"'.\n\n">> \o userPrompt
    \o <<"\n\nHere are the issues:\n\n">> \o IssuesText(issues)
    \o <<"\n\nPlease provide a comprehensive analysis based on the request above.">>

\* the request analyzeIssues sends to the configured provider
ProviderRequest(repo, issues, userPrompt) ==
  [system |-> SystemPrompt,
   user |-> FullPrompt(repo, issues, userPrompt),
   max_tokens |-> MaxTokens]

\* What a provider call comes to: the API call fails, or it answers with or
\* without a text segment.
ProviderOutcomes ==
  {[failed |-> TRUE, hasText |-> FALSE, text |-> <<>>],
   [failed |-> FALSE, hasText |-> FALSE, text |-> <<>>],
   [failed |-> FALSE, hasText |-> TRUE, text |-> <<>>],
   [failed |-> FALSE, hasText |-> TRUE, text |-> <<"Themes: ...">>]}

\* a call throws an Error with a message, or returns a text
Threw(msg) == [threw |-> TRUE, text |-> msg]
Returned(text) == [threw |-> FALSE, text |-> text]

\* the message of the error a failed API call throws
ApiFailure == <<"401 invalid x-api-key">>

analyzeWithAnthropic(o) ==
  IF o.failed THEN Threw(ApiFailure)
  ELSE IF ~o.hasText THEN Threw(<<"No text content in LLM response">>)
  ELSE Returned(o.text)

analyzeWithOpenAI(o) ==
  IF o.failed THEN Threw(ApiFailure)
  ELSE IF ~o.hasText \/ o.text = <<>> THEN Threw(<<"No content in OpenAI response">>)
  ELSE Returned(o.text)

\* analyzeIssues renders and dispatches whatever issues it is given: no
\* statement of it returns before the dispatch
analyzeIssuesGuarded(issues) == Len(issues) > 0

analyzeIssuesDispatches(issues) == TRUE

\* the try/catch of analyzeIssues around the dispatch: an error of the
\* provider call is thrown again with the prefix
analyzeIssuesResult(prov, o) ==
  LET res == IF DispatchTarget(prov) = "anthropic" THEN analyzeWithAnthropic(o)
             ELSE analyzeWithOpenAI(o)
  IN  IF res.threw THEN Threw(<<"LLM API error: ">> \o res.text) ELSE res


(***************************************************************************)
(* Requests and responses of index.ts.                                     *)
(***************************************************************************)
\* body.repo of a request: missing, or a string
RepoFields ==
  {Null, Str(<<>>), Str(RepoNoSlash), Str(RepoAB), Str(RepoSlashB), Str(KeyConstructor)}

\* body.prompt of a request
PromptFields == {Null, Str(<<>>), Str(<<"p">>)}

RepoKeys == {v.s : v \in RepoFields} \cup {RepoBA, RepoCD}

Slots == 1..MaxReq

NeverScanned == [ok |-> FALSE, issues |-> <<>>, at |-> 0]

NothingRead == [kind |-> "none", n |-> 0]

\* A handler: where it is (idle, awaiting a page, awaiting the provider), its
\* locals, and for the history what it was given: the non-pull-request items
\* counted as the pages arrived, whether a pull request was among them, what
\* getIssues returned, the calls to the provider, whether a scan of its
\* repository had succeeded when it started, the page numbers it requested
\* with the parameters of its requests and the non-empty pages it received,
\* whether a scan of its repository was in flight when it started (later),
\* and whether, while it was in flight, a scan of its repository or of
\* another one stored its issues (sameStored, otherStored).
Idle ==
  [pc |-> "idle", repo |-> <<>>, prompt |-> <<>>, page |-> 0, issues |-> <<>>,
   sent |-> <<>>, nonPr |-> 0, prSeen |-> FALSE, read |-> NothingRead,
   calls |-> 0, before |-> FALSE, asked |-> <<>>, got |-> <<>>,
   query |-> [state |-> "", per_page |-> 0],
   later |-> FALSE, sameStored |-> FALSE, otherStored |-> FALSE]

\* How a page request fails: the host answers with a status that is not a
\* success, its body with or without a message, or there is no answer at
\* all; text is the message of the error the HTTP client throws.
FetchFailures ==
  {[failed |-> TRUE, response |-> TRUE, status |-> 404,
    bodyMessage |-> Str(<<"Not Found">>),
    text |-> <<"Request failed with status code 404">>],
   [failed |-> TRUE, response |-> TRUE, status |-> 502, bodyMessage |-> Null,
    text |-> <<"Request failed with status code 502">>],
   [failed |-> TRUE, response |-> FALSE, status |-> 0, bodyMessage |-> Null,
    text |-> <<"connect ECONNREFUSED">>]}

NoFailure ==
  [failed |-> FALSE, response |-> FALSE, status |-> 0, bodyMessage |-> Null,
   text |-> <<>>]

\* the provider answer recorded with a response that followed no call
NoOutcome == [failed |-> FALSE, hasText |-> FALSE, text |-> <<>>]

NoAnalysis == [has |-> FALSE, text |-> <<>>]
Analysis(text) == [has |-> TRUE, text |-> text]

NoIssuesSentence ==
  <<"No issues found in the cache for this repository. The repository may not have any open issues.">>

\* A response: the status and the JSON body (message is the text of its
\* error member), and the history of the handler that sent it: what it was
\* asked, the failure of the host, the outcome of the cache write and the
\* answer of the provider it met; for a scan that succeeded, the scan it
\* replaces.
Response(kind, status, h) ==
  [kind |-> kind, status |-> status, repo |-> h.repo, prompt |-> h.prompt,
   issues_fetched |-> -1, cached_successfully |-> "absent",
   analysis |-> NoAnalysis, error |-> status >= 400, message |-> <<>>,
   calls |-> h.calls, nonPr |-> h.nonPr, prSeen |-> h.prSeen,
   read |-> h.read, before |-> h.before, asked |-> h.asked,
   issues |-> h.issues, got |-> h.got, later |-> h.later,
   sameStored |-> h.sameStored, otherStored |-> h.otherStored,
   upstream |-> NoFailure, write |-> "none", outcome |-> NoOutcome,
   prev |-> NeverScanned]

\* res.status(status).json({error: msg})
ErrorResponse(kind, status, h, msg) ==
  [Response(kind, status, h) EXCEPT !.message = msg]

NoResponse == Response("none", 0, Idle)

\* `!issues || issues.length === 0` of the /analyze handler
NoIssuesCachedNever(cachedData) == FALSE

NoIssuesCached(cachedData) ==
  cachedData.kind = "builtin" \/ Len(cachedData.entry.issues) = 0

\* process.env: the two credentials, each unset, empty or a key
Credentials == {Null, Str(<<>>), Str(<<"k">>)}

Environments == [anthropic : Credentials, openai : Credentials]

ProcOff ==
  [pc |-> "off", env |-> [anthropic |-> Null, openai |-> Null],
   atStart |-> [anthropic |-> Null, openai |-> Null], selected |-> "none",
   via |-> <<>>]

StoreOff ==
  [pc |-> "off", repo |-> <<>>, issues |-> <<>>, before |-> EmptyObject,
   readOk |-> TRUE]

MainInit ==
  /\ file \in {AbsentFile, FileOf(JsonStringify(EmptyObject)), GarbledFile}
  /\ now = 0
  /\ \E anthropicKey, openaiKey \in Credentials :
       provider = SelectProvider(anthropicKey, openaiKey)
  /\ req = [s \in Slots |-> Idle]
  /\ lastResp = NoResponse
  /\ scanned = [k \in RepoKeys |-> NeverScanned]

HarnessOff ==
  /\ val = [pc |-> "off", s |-> <<>>, out |-> FALSE]
  /\ eng = [pc |-> "off", issues |-> <<>>, sent |-> <<>>, calls |-> 0,
            result |-> Returned(<<>>)]
  /\ rt = [pc |-> "off", cache |-> EmptyObject, loaded |-> EmptyObject]
  /\ proc = ProcOff
  /\ st = StoreOff

Init == MainInit /\ HarnessOff /\ track = FALSE

\* the process serves requests only when the constructor found a provider
Serving == provider # "none"

\* a new request is handled in the first free slot
Free(s) == req[s].pc = "idle" /\ \A t \in Slots : t < s => req[t].pc # "idle"

Tick ==
  /\ now < MaxClock
  /\ now' = now + 1
  /\ lastResp' = NoResponse
  /\ UNCHANGED <<file, provider, req, scanned, val, eng, rt, proc, st, track>>

FileAtStartupCleared(f) == AbsentFile

\* issues_cache.json as a starting process finds it: index.ts and cache.ts
\* neither create nor clear it at module load
FileAtStartup(f) == f

\* The server is stopped and started again with the same environment: the
\* handlers in flight are gone with everything they held in memory, the
\* file is what it was.
Restart ==
  /\ Serving
  /\ req' = [s \in Slots |-> Idle]
  /\ file' = FileAtStartup(file)
  /\ lastResp' = [NoResponse EXCEPT !.kind = "restart"]
  /\ UNCHANGED <<now, provider, scanned, val, eng, rt, proc, st, track>>

\* GET /health
Health ==
  /\ Serving
  /\ lastResp' = Response("health", 200, Idle)
  /\ UNCHANGED <<file, now, provider, req, scanned, val, eng, rt, proc, st, track>>

(***************************************************************************)
(* POST /scan: from the request up to the first page request.              *)
(***************************************************************************)
ScanRequest(s, repo) ==
  /\ Serving
  /\ Free(s)
  /\ LET h == [Idle EXCEPT !.repo = repo.s]
     IN  IF ~TruthyStr(repo)
         THEN /\ lastResp' = ErrorResponse("scan", 400, h,
                               <<"Missing 'repo' field in request body">>)
              /\ UNCHANGED req
         ELSE IF ~validateRepoFormat(repo.s)
         THEN /\ lastResp' = ErrorResponse("scan", 400, h,
                               <<"Invalid repo format. Expected 'owner/repository-name'">>)
              /\ UNCHANGED req
         ELSE /\ req' = [req EXCEPT ![s] =
                              [h EXCEPT !.pc = "fetch", !.page = 1, !.asked = <<1>>,
                                        !.query = FetchQuery,
                                        !.later = /\ track
                                                  /\ \E t \in Slots :
                                                       /\ req[t].pc = "fetch"
                                                       /\ req[t].repo = repo.s]]
              /\ lastResp' = NoResponse
  /\ UNCHANGED <<file, now, provider, scanned, val, eng, rt, proc, st, track>>

fetchErrorWithoutStatus(f) ==
  <<"GitHub API error: ">> \o f.text

\* the catch of fetchAllIssues: the error thrown for a failed page request
fetchError(f) ==
  <<"GitHub API error: ">>
    \o (IF f.response THEN NumToString(f.status) ELSE <<"undefined">>)
    \o <<" - ">>
    \o (IF f.response /\ TruthyStr(f.bodyMessage) THEN f.bodyMessage.s ELSE f.text)

ScanCatchStoring(f, h, t) == storeIssues(f, h.repo, h.issues, t, TRUE).file

\* the catch of /scan: it answers 500 and leaves the store as it is, whatever
\* the handler had fetched
ScanCatch(f, h, t) == f

\* a page request fails: fetchAllIssues throws, nothing is stored and the
\* handler answers 500
FetchFail(s, f) ==
  /\ req[s].pc = "fetch"
  /\ lastResp' = [ErrorResponse("scan", 500, req[s], fetchError(f))
                    EXCEPT !.cached_successfully = "false", !.upstream = f]
  /\ req' = [req EXCEPT ![s] = Idle]
  /\ file' = ScanCatch(file, req[s], now)
  /\ UNCHANGED <<now, provider, scanned, val, eng, rt, proc, st, track>>

NextPageAgain(page) == page

\* page++
NextPage(page) == page + 1

\* a non-empty page: its issues are pushed and the next page is requested
FetchNextPage(s, page) ==
  /\ req[s].pc = "fetch"
  /\ page \in PagesAt(req[s].repo, req[s].page)
  /\ req' = [req EXCEPT ![s].issues = @ \o PageIssues(page),
                        ![s].page = NextPage(@),
                        ![s].asked = Append(@, NextPage(req[s].page)),
                        ![s].got = Append(@, page),
                        ![s].nonPr = @ + Cardinality({i \in 1..Len(page) :
                                                        ~page[i].pull_request}),
                        ![s].prSeen = @ \/ \E i \in 1..Len(page) : page[i].pull_request]
  /\ lastResp' = NoResponse
  /\ UNCHANGED <<file, now, provider, scanned, val, eng, rt, proc, st, track>>

\* a handler in flight while the issues of repo are stored by another one
Overlapped(h, repo) ==
  IF h.pc = "idle" \/ ~track THEN h
  ELSE [h EXCEPT !.sameStored = @ \/ h.repo = repo,
                 !.otherStored = @ \/ h.repo # repo]

\* the empty page: the loop ends, the issues are stored and the handler
\* answers 200, or 500 when the write fails
FetchLastPage(s, writeOk) ==
  /\ req[s].pc = "fetch"
  /\ LET r == [req[s] EXCEPT !.before = scanned[req[s].repo].ok]
         w == storeIssues(file, r.repo, r.issues, now, writeOk)
     IN  /\ file' = w.file
         /\ IF w.threw
            THEN /\ lastResp' = [ErrorResponse("scan", 500, r,
                                               <<"Failed to save cache to file">>)
                                   EXCEPT !.cached_successfully = "false",
                                          !.write = IF writeOk THEN "ok" ELSE "failed"]
                 /\ req' = [req EXCEPT ![s] = Idle]
                 /\ UNCHANGED scanned
            ELSE /\ lastResp' = [Response("scan", 200, r)
                                   EXCEPT !.issues_fetched = Len(r.issues),
                                          !.cached_successfully = "true",
                                          !.write = IF writeOk THEN "ok" ELSE "failed",
                                          !.prev = scanned[r.repo]]
                 /\ req' = [t \in Slots |->
                              IF t = s THEN Idle ELSE Overlapped(req[t], r.repo)]
                 /\ scanned' = [scanned EXCEPT ![r.repo] =
                                  [ok |-> TRUE, issues |-> r.issues, at |-> now]]
  /\ UNCHANGED <<now, provider, val, eng, rt, proc, st, track>>

(***************************************************************************)
(* POST /analyze: from the request up to the provider call, and from the   *)
(* provider's answer to the response.                                      *)
(***************************************************************************)
MissingRepoOnly(repo, prompt) == ~TruthyStr(repo)

\* `!body.repo || !body.prompt`
MissingFields(repo, prompt) == ~TruthyStr(repo) \/ ~TruthyStr(prompt)

AnalyzeRequest(s, repo, prompt) ==
  /\ Serving
  /\ Free(s)
  /\ LET h == [Idle EXCEPT !.repo = repo.s, !.prompt = prompt.s,
                           !.before = scanned[repo.s].ok]
     IN  IF MissingFields(repo, prompt)
         THEN /\ lastResp' = ErrorResponse("analyze", 400, h,
                               <<"Missing 'repo' or 'prompt' field in request body">>)
              /\ UNCHANGED req
         ELSE IF ~hasRepo(file, repo.s)
         THEN /\ lastResp' = ErrorResponse("analyze", 404, h,
                               <<"Repository '">> \o repo.s
                                 \o <<"' not yet scanned. Please call /scan first.">>)
              /\ UNCHANGED req
         ELSE LET cachedData == getIssues(file, repo.s)
                  g == [h EXCEPT !.read = [kind |-> cachedData.kind,
                                           n |-> Len(cachedData.entry.issues)],
                                 !.issues = cachedData.entry.issues]
              IN  IF cachedData.kind = "null"
                  THEN /\ lastResp' = ErrorResponse("analyze", 500, g,
                                        <<"Failed to retrieve cached data for repository '">>
                                          \o repo.s \o <<"'">>)
                       /\ UNCHANGED req
                  ELSE IF NoIssuesCached(cachedData)
                  THEN /\ lastResp' = [Response("analyze", 200, g) EXCEPT
                                         !.analysis = Analysis(NoIssuesSentence)]
                       /\ UNCHANGED req
                  ELSE IF analyzeIssuesDispatches(g.issues)
                  THEN /\ req' = [req EXCEPT ![s] =
                                    [g EXCEPT !.pc = "llm",
                                              !.sent = ProviderRequest(g.repo, g.issues,
                                                                       g.prompt).user,
                                              !.calls = 1]]
                       /\ lastResp' = NoResponse
                  ELSE /\ lastResp' = [Response("analyze", 200, g) EXCEPT
                                         !.analysis = Analysis(NoIssuesSentence)]
                       /\ UNCHANGED req
  /\ UNCHANGED <<file, now, provider, scanned, val, eng, rt, proc, st, track>>

ProviderAnswers(s, o) ==
  /\ req[s].pc = "llm"
  /\ LET res == analyzeIssuesResult(provider, o)
     IN  lastResp' = IF res.threw
                     THEN [ErrorResponse("analyze", 500, req[s], res.text)
                             EXCEPT !.outcome = o]
                     ELSE [Response("analyze", 200, req[s])
                             EXCEPT !.analysis = Analysis(res.text), !.outcome = o]
  /\ req' = [req EXCEPT ![s] = Idle]
  /\ UNCHANGED <<file, now, provider, scanned, val, eng, rt, proc, st, track>>

Next ==
  \/ Tick
  \/ Restart
  \/ Health
  \/ \E s \in Slots, repo \in RepoFields : ScanRequest(s, repo)
  \/ \E s \in Slots, f \in FetchFailures : FetchFail(s, f)
  \/ \E s \in Slots, page \in UNION {PagesAt(RepoAB, n) : n \in 1..2} :
       FetchNextPage(s, page)
  \/ \E s \in Slots, writeOk \in BOOLEAN : FetchLastPage(s, writeOk)
  \/ \E s \in Slots, repo \in RepoFields, prompt \in PromptFields :
       AnalyzeRequest(s, repo, prompt)
  \/ \E s \in Slots, o \in ProviderOutcomes : ProviderAnswers(s, o)

Spec == Init /\ [][Next]_vars

(***************************************************************************)
(* validateRepoFormat applied to every string of at most MaxRepoLen        *)
(* characters over a, b and the slash.                                     *)
(***************************************************************************)
MainQuiet ==
  /\ now = 0
  /\ req = [s \in Slots |-> Idle]
  /\ lastResp = NoResponse
  /\ scanned = [k \in RepoKeys |-> NeverScanned]

RepoStrings == SeqsUpTo({"a", "b", Slash}, MaxRepoLen)

ValidateInit ==
  /\ MainQuiet
  /\ file = AbsentFile
  /\ provider = "anthropic"
  /\ val \in [pc : {"in"}, s : RepoStrings, out : {FALSE}]
  /\ eng = [pc |-> "off", issues |-> <<>>, sent |-> <<>>, calls |-> 0,
            result |-> Returned(<<>>)]
  /\ rt = [pc |-> "off", cache |-> EmptyObject, loaded |-> EmptyObject]
  /\ proc = ProcOff
  /\ st = StoreOff
  /\ track = FALSE

ValidateCall ==
  /\ val.pc = "in"
  /\ val' = [val EXCEPT !.pc = "out", !.out = validateRepoFormat(val.s)]
  /\ UNCHANGED <<file, now, provider, req, lastResp, scanned, eng, rt, proc, st, track>>

ValidateNext == ValidateCall

SpecValidate == ValidateInit /\ [][ValidateNext]_vars

(***************************************************************************)
(* LLMService.analyzeIssues called directly, with issues whose bodies are  *)
(* absent, empty, short, and around the truncation limit.                  *)
(***************************************************************************)
BodyOfLen(n) == [i \in 1..n |-> IF i % 2 = 1 THEN "x" ELSE "y"]

EngBodies ==
  {Null, Str(<<>>), Str(BodyOfLen(1)), Str(BodyOfLen(BodyLimit - 1)),
   Str(BodyOfLen(BodyLimit))}
    \cup {Str(BodyOfLen(BodyLimit + k)) : k \in 1..MaxBodyExtra}

EngIssue(id, body) ==
  GitHubIssue(id, <<"T">> \o NumToString(id), body,
              <<"h", "/">> \o NumToString(id), <<"2", "0">> \o NumToString(id))

\* the issue at place i has id i
EngIssueLists ==
  UNION {{[i \in 1..n |-> EngIssue(i, bs[i])] : bs \in [1..n -> EngBodies]} :
           n \in 0..MaxEngIssues}

EngineInit ==
  /\ MainQuiet
  /\ file = AbsentFile
  /\ provider \in {"anthropic", "openai"}
  /\ val = [pc |-> "off", s |-> <<>>, out |-> FALSE]
  /\ eng \in [pc : {"in"}, issues : EngIssueLists, sent : {<<>>}, calls : {0},
              result : {Returned(<<>>)}]
  /\ rt = [pc |-> "off", cache |-> EmptyObject, loaded |-> EmptyObject]
  /\ proc = ProcOff
  /\ st = StoreOff
  /\ track = FALSE

\* analyzeIssues up to the await of the provider call
EngineCall ==
  /\ eng.pc = "in"
  /\ IF analyzeIssuesDispatches(eng.issues)
     THEN eng' = [eng EXCEPT !.pc = "awaiting",
                             !.sent = ProviderRequest(RepoAB, eng.issues, <<"p">>).user,
                             !.calls = @ + 1]
     ELSE eng' = [eng EXCEPT !.pc = "done", !.result = Returned(NoIssuesSentence)]
  /\ UNCHANGED <<file, now, provider, req, lastResp, scanned, val, rt, proc, st, track>>

\* the provider's answer: analyzeIssues returns the text or throws
EngineReturn(o) ==
  /\ eng.pc = "awaiting"
  /\ eng' = [eng EXCEPT !.pc = "done", !.result = analyzeIssuesResult(provider, o)]
  /\ UNCHANGED <<file, now, provider, req, lastResp, scanned, val, rt, proc, st, track>>

EngineNext ==
  \/ EngineCall
  \/ \E o \in ProviderOutcomes : EngineReturn(o)

SpecEngine == EngineInit /\ [][EngineNext]_vars

(***************************************************************************)
(* saveCache followed by loadCache, for the caches of RoundTripCaches.     *)
(***************************************************************************)
RoundTripIssues == {ProjectItem(IssueWithBody), EngIssue(7, Null)}

RoundTripEntries ==
  {CachedRepo(is, toISOString(t)) :
     is \in SeqsUpTo(RoundTripIssues, MaxEngIssues), t \in {0, 1000 + MaxClock}}

RoundTripKeys == {<<>>, <<RepoAB>>, <<RepoAB, RepoSlashB>>, <<KeyConstructor, RepoAB>>}

RoundTripCaches ==
  UNION {{[keys |-> ks, at |-> f] :
            f \in [{ks[i] : i \in 1..Len(ks)} -> RoundTripEntries]} :
           ks \in RoundTripKeys}

RoundTripInit ==
  /\ MainQuiet
  /\ file \in {AbsentFile, GarbledFile}
  /\ provider = "anthropic"
  /\ val = [pc |-> "off", s |-> <<>>, out |-> FALSE]
  /\ eng = [pc |-> "off", issues |-> <<>>, sent |-> <<>>, calls |-> 0,
            result |-> Returned(<<>>)]
  /\ rt \in [pc : {"in"}, cache : RoundTripCaches, loaded : {EmptyObject}]
  /\ proc = ProcOff
  /\ st = StoreOff
  /\ track = FALSE

RoundTripSave(writeOk) ==
  /\ rt.pc = "in"
  /\ LET w == saveCache(file, rt.cache, writeOk)
     IN  /\ file' = w.file
         /\ rt' = [rt EXCEPT !.pc = IF w.threw THEN "failed" ELSE "saved"]
  /\ UNCHANGED <<now, provider, req, lastResp, scanned, val, eng, proc, st, track>>

RoundTripLoad ==
  /\ rt.pc = "saved"
  /\ rt' = [rt EXCEPT !.pc = "loaded", !.loaded = loadCache(file)]
  /\ UNCHANGED <<file, now, provider, req, lastResp, scanned, val, eng, proc, st, track>>

RoundTripNext ==
  \/ \E writeOk \in BOOLEAN : RoundTripSave(writeOk)
  \/ RoundTripLoad

SpecRoundTrip == RoundTripInit /\ [][RoundTripNext]_vars

(***************************************************************************)
(* The process from its start: the constructor of LLMService reads the     *)
(* environment once, the process exits when it throws, and every later     *)
(* analyzeIssues dispatches on the field the constructor set, whatever     *)
(* becomes of the environment.                                             *)
(***************************************************************************)
MaxCalls == 2  \* calls of analyzeIssues in one process

ProviderInit ==
  /\ MainQuiet
  /\ file = AbsentFile
  /\ provider = "none"
  /\ val = [pc |-> "off", s |-> <<>>, out |-> FALSE]
  /\ eng = [pc |-> "off", issues |-> <<>>, sent |-> <<>>, calls |-> 0,
            result |-> Returned(<<>>)]
  /\ rt = [pc |-> "off", cache |-> EmptyObject, loaded |-> EmptyObject]
  /\ proc \in [pc : {"start"}, env : Environments, atStart : {ProcOff.atStart},
               selected : {"none"}, via : {<<>>}]
  /\ st = StoreOff
  /\ track = FALSE

\* llmService = new LLMService(), process.exit(1) in the catch
ProcessStart ==
  /\ proc.pc = "start"
  /\ LET p == SelectProvider(proc.env.anthropic, proc.env.openai)
     IN  /\ provider' = p
         /\ proc' = [proc EXCEPT !.pc = IF p = "none" THEN "exited" ELSE "serving",
                                 !.atStart = proc.env,
                                 !.selected = p]
  /\ UNCHANGED <<file, now, req, lastResp, scanned, val, eng, rt, st, track>>

\* the credentials of the environment change while the process serves
EnvironmentChanges(env) ==
  /\ proc.pc = "serving"
  /\ env # proc.env
  /\ proc' = [proc EXCEPT !.env = env]
  /\ UNCHANGED <<file, now, provider, req, lastResp, scanned, val, eng, rt, st, track>>

\* a call of analyzeIssues reaches its dispatch
ProcessAnalyzes ==
  /\ proc.pc = "serving"
  /\ Len(proc.via) < MaxCalls
  /\ proc' = [proc EXCEPT
                !.via = Append(@, DispatchTarget(CurrentProvider(provider, proc.env)))]
  /\ UNCHANGED <<file, now, provider, req, lastResp, scanned, val, eng, rt, st, track>>

ProviderNext ==
  \/ ProcessStart
  \/ \E env \in Environments : EnvironmentChanges(env)
  \/ ProcessAnalyzes

SpecProvider == ProviderInit /\ [][ProviderNext]_vars

(***************************************************************************)
(* storeIssues on a store that holds entries of other repositories: the    *)
(* read of its loadCache succeeds or fails, the write of its saveCache     *)
(* succeeds or fails, or the process dies between the two.                 *)
(***************************************************************************)
StoreFiles ==
  {AbsentFile, GarbledFile} \cup {FileOf(JsonStringify(c)) : c \in RoundTripCaches}

StoreInit ==
  /\ MainQuiet
  /\ file \in StoreFiles
  /\ provider = "anthropic"
  /\ val = [pc |-> "off", s |-> <<>>, out |-> FALSE]
  /\ eng = [pc |-> "off", issues |-> <<>>, sent |-> <<>>, calls |-> 0,
            result |-> Returned(<<>>)]
  /\ rt = [pc |-> "off", cache |-> EmptyObject, loaded |-> EmptyObject]
  /\ proc = ProcOff
  /\ st \in [pc : {"in"}, repo : {RepoAB, RepoBA},
             issues : SeqsUpTo(RoundTripIssues, 1),
             before : {loadCache(file)}, readOk : {TRUE}]
  /\ track = FALSE

\* storeIssues runs to its end
StoreCall(readOk, writeOk) ==
  /\ st.pc = "in"
  /\ LET w == storeIssuesFrom(file, st.repo, st.issues, now, readOk, writeOk)
     IN  /\ file' = w.file
         /\ st' = [st EXCEPT !.pc = IF w.threw THEN "threw" ELSE "stored",
                             !.readOk = readOk]
  /\ UNCHANGED <<now, provider, req, lastResp, scanned, val, eng, rt, proc, track>>

\* the process dies after loadCache and before saveCache
StoreInterrupted(readOk) ==
  /\ st.pc = "in"
  /\ st' = [st EXCEPT !.pc = "interrupted", !.readOk = readOk]
  /\ UNCHANGED <<file, now, provider, req, lastResp, scanned, val, eng, rt, proc, track>>

StoreNext ==
  \/ \E readOk, writeOk \in BOOLEAN : StoreCall(readOk, writeOk)
  \/ \E readOk \in BOOLEAN : StoreInterrupted(readOk)

SpecStore == StoreInit /\ [][StoreNext]_vars

(***************************************************************************)
(* Requests that overlap: scans of a/b and of b/a and analyses of a/b, the *)
(* handlers keeping the history of the stores that happened while they     *)
(* were in flight.                                                         *)
(***************************************************************************)
RaceRepos == {Str(RepoAB), Str(RepoBA)}

RaceInit ==
  /\ MainQuiet
  /\ file \in {AbsentFile, GarbledFile}
  /\ provider = "anthropic"
  /\ HarnessOff
  /\ track = TRUE

RaceNext ==
  \/ \E s \in Slots, repo \in RaceRepos : ScanRequest(s, repo)
  \/ \E s \in Slots, f \in FetchFailures : FetchFail(s, f)
  \/ \E s \in Slots, page \in UNION {PagesAt(RepoAB, n) : n \in 1..2} :
       FetchNextPage(s, page)
  \/ \E s \in Slots, writeOk \in BOOLEAN : FetchLastPage(s, writeOk)
  \/ \E s \in Slots : AnalyzeRequest(s, Str(RepoAB), Str(<<"p">>))
  \/ \E s \in Slots, o \in ProviderOutcomes : ProviderAnswers(s, o)

SpecRace == RaceInit /\ [][RaceNext]_vars

(***************************************************************************)
(* fetchAllIssues alone: scans of c/d, one at a time, the host serving any *)
(* pages of HostPages until it serves the empty one or fails.              *)
(***************************************************************************)
FetchInit ==
  /\ MainQuiet
  /\ file = AbsentFile
  /\ provider = "anthropic"
  /\ HarnessOff
  /\ track = FALSE

FetchNext ==
  \/ ScanRequest(1, Str(RepoCD))
  \/ \E f \in FetchFailures : FetchFail(1, f)
  \/ \E page \in HostPages : FetchNextPage(1, page)
  \/ \E writeOk \in BOOLEAN : FetchLastPage(1, writeOk)

SpecFetch == FetchInit /\ [][FetchNext]_vars

(***************************************************************************)
(* The properties.                                                         *)
(***************************************************************************)
\* owner/name: one slash, with a character before it and one after it
OwnerSlashName(s) ==
  \E i \in 2..(Len(s) - 1) :
    /\ s[i] = Slash
    /\ \A j \in 1..Len(s) : j # i => s[j] # Slash

\* C1: validateRepoFormat returns true for exactly the strings of the shape
\* owner/name, one slash between two non-empty segments, and false for every
\* other string.
C1_ValidatesExactlyOwnerSlashName ==
  val.pc = "out" => (val.out <=> OwnerSlashName(val.s))

\* C2: /analyze with a repo and a prompt, for a repository no scan of which
\* has succeeded, answers 404 and calls no provider.
C2_AnalyzeNeedsPriorScan ==
  (lastResp.kind = "analyze" /\ lastResp.status # 400 /\ ~lastResp.before)
    => (lastResp.status = 404 /\ lastResp.calls = 0)

\* the entry getIssues returns for a repository and what hasRepo says of it
Cached(k) == getIssues(file, k)

C4_NoPullRequestCached ==
  /\ \A k \in OwnKeys(loadCache(file)) :
       \A i \in 1..Len(loadCache(file).at[k].issues) :
         loadCache(file).at[k].issues[i].id \notin PullRequestIds
  /\ \A s \in Slots :
       /\ \A i \in 1..Len(req[s].issues) : req[s].issues[i].id \notin PullRequestIds
       /\ req[s].pc = "fetch" => Len(req[s].issues) = req[s].nonPr

\* a scan that was served a pull request succeeded and its issues are cached
C4_Witness ==
  /\ lastResp.kind = "scan" /\ lastResp.status = 200 /\ lastResp.prSeen
  /\ Len(Cached(lastResp.repo).entry.issues) > 0

\* C5: a successful re-scan replaces the entry: it holds the issues of the
\* latest fetch and nothing else, the store holds one entry for the
\* repository, and last_updated is the time of this write.
C5_RescanReplaces ==
  (lastResp.kind = "scan" /\ lastResp.status = 200 /\ lastResp.prev.ok) =>
    LET k == lastResp.repo
    IN  /\ Cached(k).kind = "entry"
        /\ Cached(k).entry.issues = scanned[k].issues
        /\ Len(Cached(k).entry.issues) = lastResp.issues_fetched
        /\ Cached(k).entry.last_updated = toISOString(now)
        /\ Cardinality({i \in 1..Len(file.doc) : file.doc[i][1] = k}) = 1

\* a re-scan at a later time that did not find again an issue of the scan
\* it replaces
C5_Witness ==
  /\ lastResp.kind = "scan" /\ lastResp.status = 200 /\ lastResp.prev.ok
  /\ lastResp.prev.at < now
  /\ \E i \in 1..Len(lastResp.prev.issues) :
       \A j \in 1..Len(Cached(lastResp.repo).entry.issues) :
         Cached(lastResp.repo).entry.issues[j] # lastResp.prev.issues[i]

\* C6: /analyze of a repository whose cached issue sequence is empty answers
\* 200 with the fixed sentence, and no provider call is made for it.
C6_EmptyCacheShortCircuit ==
  /\ (lastResp.kind = "analyze" /\ lastResp.read.kind = "entry" /\ lastResp.read.n = 0)
       => /\ lastResp.status = 200
          /\ lastResp.analysis = Analysis(NoIssuesSentence)
          /\ lastResp.calls = 0
  /\ \A s \in Slots : req[s].pc = "llm" => req[s].read.n > 0

\* /analyze of a repository that was scanned and has no issue
C6_Witness ==
  /\ lastResp.kind = "analyze" /\ lastResp.status = 200 /\ lastResp.before
  /\ lastResp.read.kind = "entry" /\ lastResp.read.n = 0

\* the places of a token in a rendered prompt, and the n-th of them
Places(text, tok) == {k \in 1..Len(text) : text[k] = tok}
NthPlace(text, tok, n) ==
  CHOOSE k \in Places(text, tok) : Cardinality({j \in Places(text, tok) : j < k}) = n - 1

\* the number of issue blocks of a rendered prompt
Blocks(text) == Cardinality(Places(text, "\nIssue ID: "))

\* C7: analyzeIssues itself, given no issues, returns the fixed sentence
\* and dispatches to no provider.
C7_EngineSkipsProviderOnEmpty ==
  (eng.pc \in {"awaiting", "done"} /\ eng.issues = <<>>) =>
    /\ eng.calls = 0
    /\ eng.pc = "done" /\ eng.result = Returned(NoIssuesSentence)

\* C7 as amended: analyzeIssues has no guard of its own: given no issues it
\* dispatches one request, with no issue block, to the provider, and its
\* result is the provider's.
C7_EngineDispatchesOnEmpty ==
  (eng.pc \in {"awaiting", "done"} /\ eng.issues = <<>>) =>
    /\ eng.calls = 1
    /\ Blocks(eng.sent) = 0
    /\ eng.result # Returned(NoIssuesSentence)

C7_Witness ==
  eng.pc = "done" /\ eng.issues = <<>> /\ eng.calls = 1 /\ ~eng.result.threw

\* the Body field of the n-th issue block of a rendered prompt
BodyField(text, n) ==
  SubSeq(text, NthPlace(text, "\nBody: ", n) + 1, NthPlace(text, "\nURL: ", n) - 1)

\* C8: in the rendered prompt a body of more than 500 characters appears as
\* its first 500 characters, a shorter one unchanged, an absent or empty one
\* as the placeholder; no Body field is empty.
C8_BodiesTruncated ==
  eng.pc \in {"awaiting", "done"} =>
    /\ Blocks(eng.sent) = Len(eng.issues)
    /\ \A n \in 1..Len(eng.issues) :
         LET b == eng.issues[n].body
             shown == BodyField(eng.sent, n)
         IN  /\ shown # <<>>
             /\ (b.null \/ b.s = <<>>) => shown = <<"No description">>
             /\ (~b.null /\ b.s # <<>> /\ Len(b.s) <= BodyLimit) => shown = b.s
             /\ (~b.null /\ Len(b.s) > BodyLimit) =>
                  /\ Len(shown) = BodyLimit
                  /\ \A k \in 1..BodyLimit : shown[k] = b.s[k]

\* a prompt rendered for an issue without a body and one whose body is too long
C8_Witness ==
  /\ eng.pc = "awaiting" /\ Len(eng.issues) = 2
  /\ eng.issues[1].body.null
  /\ Len(eng.issues[2].body.s) > BodyLimit
  /\ Len(BodyField(eng.sent, 2)) = BodyLimit

\* C9: a cache saved and loaded again has the same repository identifiers
\* and, for each, the same issues in the same order and the same
\* last_updated.
C9_RoundTrip ==
  rt.pc = "loaded" =>
    /\ OwnKeys(rt.loaded) = OwnKeys(rt.cache)
    /\ \A k \in OwnKeys(rt.cache) :
         /\ rt.loaded.at[k].issues = rt.cache.at[k].issues
         /\ rt.loaded.at[k].last_updated = rt.cache.at[k].last_updated

\* a cache of two repositories, one with two issues, one of them without a
\* body, written over a file that did not parse
C9_Witness ==
  /\ rt.pc = "loaded" /\ Len(rt.cache.keys) = 2
  /\ \E k \in OwnKeys(rt.loaded) :
       /\ Len(rt.loaded.at[k].issues) = 2
       /\ rt.loaded.at[k].issues[1].body.null
       /\ rt.loaded.at[k].issues[2].id = 12

\* C10: a successful scan answers {repo, issues_fetched, cached_successfully:
\* true}, issues_fetched being the number of items without the pull-request
\* marker the host returned and the length of the sequence now cached.
C10_ScanResponse ==
  (lastResp.kind = "scan" /\ lastResp.status = 200) =>
    /\ lastResp.cached_successfully = "true"
    /\ ~lastResp.error
    /\ lastResp.issues_fetched = lastResp.nonPr
    /\ Cached(lastResp.repo).kind = "entry"
    /\ lastResp.issues_fetched = Len(Cached(lastResp.repo).entry.issues)

\* three issues and one pull request: issues_fetched is 3
C10_Witness ==
  /\ lastResp.kind = "scan" /\ lastResp.status = 200 /\ lastResp.repo = RepoAB
  /\ lastResp.prSeen /\ lastResp.issues_fetched = 3

\* C11: /scan answers 400 with an error body to every request whose repo
\* field is missing or is not of the shape owner/name, never 200 or 500,
\* and starts no fetch for it.
C11_ScanRejectsMalformed ==
  /\ (lastResp.kind = "scan" /\ ~OwnerSlashName(lastResp.repo))
       => (lastResp.status = 400 /\ lastResp.error)
  /\ \A s \in Slots : req[s].pc = "fetch" => OwnerSlashName(req[s].repo)

\* C12: /analyze answers 400 whenever repo or prompt is missing (or empty),
\* before the cache is looked at: it is 400 and not 404 whether or not the
\* repository was scanned, and no provider call is made for the request.
C12_MissingFieldsFirst ==
  /\ (lastResp.kind = "analyze" /\ (lastResp.repo = <<>> \/ lastResp.prompt = <<>>))
       => /\ lastResp.status = 400 /\ lastResp.error
          /\ lastResp.calls = 0
          /\ lastResp.read = NothingRead
  /\ \A s \in Slots : req[s].pc = "llm" => (req[s].repo # <<>> /\ req[s].prompt # <<>>)

\* a request without a prompt for a repository whose issues are cached
C12_Witness ==
  /\ lastResp.kind = "analyze" /\ lastResp.status = 400
  /\ lastResp.repo = RepoAB /\ lastResp.prompt = <<>> /\ lastResp.before
  /\ Cached(RepoAB).kind = "entry" /\ Len(Cached(RepoAB).entry.issues) > 0

\* text occurs in message as a run of consecutive characters
Carries(message, text) ==
  \E i \in 1..(Len(message) - Len(text) + 1) :
    SubSeq(message, i, i + Len(text) - 1) = text

\* C13: when a page request of a scan fails, by a non-success answer of the
\* host or in transport, /scan answers 500 with cached_successfully false
\* and an error that carries the status and the message of the host (the
\* text of the transport error when the host sent none), and nothing the
\* fetch had collected reaches the cache.
C13_FetchFailsAsAWhole ==
  (lastResp.kind = "scan" /\ lastResp.upstream.failed) =>
    LET f == lastResp.upstream
        k == lastResp.repo
    IN  /\ lastResp.status = 500 /\ lastResp.error
        /\ lastResp.cached_successfully = "false"
        /\ lastResp.issues_fetched = -1
        /\ f.response => Carries(lastResp.message, NumToString(f.status))
        /\ Carries(lastResp.message,
                   IF f.response /\ ~f.bodyMessage.null THEN f.bodyMessage.s ELSE f.text)
        /\ IF scanned[k].ok
           THEN Cached(k).entry.issues = scanned[k].issues
           ELSE ~hasRepo(file, k)

\* the host answers 404 to a later page request of a scan that had already
\* collected issues, for a repository never cached
C13_Witness ==
  /\ lastResp.kind = "scan" /\ lastResp.status = 500
  /\ lastResp.upstream.failed /\ lastResp.upstream.status = 404
  /\ lastResp.nonPr > 0 /\ Len(lastResp.asked) > 1
  /\ ~hasRepo(file, lastResp.repo)

\* a credential is set when the variable holds a non-empty string
CredentialSet(v) == ~v.null /\ v.s # <<>>

C15_OneProviderPerProcess ==
  /\ proc.pc = "serving" => provider = proc.selected
  /\ \A i \in 1..Len(proc.via) : proc.via[i] = proc.selected

\* two calls dispatched to Anthropic after the environment has come to hold
\* the OpenAI credential only
C15_Witness ==
  /\ Len(proc.via) = MaxCalls /\ proc.selected = "anthropic"
  /\ ~CredentialSet(proc.env.anthropic) /\ CredentialSet(proc.env.openai)
  /\ \A i \in 1..Len(proc.via) : proc.via[i] = "anthropic"

\* C16: under either provider, when the provider answers with a text that
\* is empty, /analyze answers 500 with an error; no 200 response carries an
\* empty analysis.
C16_EmptyTextIsAnError ==
  /\ (/\ lastResp.kind = "analyze" /\ lastResp.calls = 1
      /\ ~lastResp.outcome.failed /\ lastResp.outcome.hasText
      /\ lastResp.outcome.text = <<>>)
       => (lastResp.status = 500 /\ lastResp.error)
  /\ (lastResp.kind = "analyze" /\ lastResp.status = 200)
       => lastResp.analysis.text # <<>>

\* no page number occurs twice in a sequence of requested pages
AskedOnce(asked) ==
  \A i, j \in 1..Len(asked) : i # j => asked[i] # asked[j]

\* no handler, running or answered, has called the provider twice or
\* requested a page number twice
C17_AtMostOnce ==
  /\ \A s \in Slots :
       /\ req[s].calls <= 1
       /\ AskedOnce(req[s].asked)
       /\ req[s].pc = "fetch" => req[s].asked = [i \in 1..req[s].page |-> i]
  /\ lastResp.calls <= 1
  /\ AskedOnce(lastResp.asked)
  /\ (lastResp.upstream.failed \/ (lastResp.calls = 1 /\ lastResp.outcome.failed))
       => (lastResp.status = 500 /\ lastResp.error)

\* the step at which a collaborator fails sends the response and ends the
\* handler, with the calls it had made and no other
C17_FailureEnds ==
  (lastResp'.upstream.failed \/ (lastResp'.calls = 1 /\ lastResp'.outcome.failed))
    => \E s \in Slots :
         /\ req[s].pc \in {"fetch", "llm"}
         /\ req'[s] = Idle
         /\ lastResp'.asked = req[s].asked
         /\ lastResp'.calls = req[s].calls
         /\ \A t \in Slots \ {s} : req'[t] = req[t]

\* C17: no retries: a request calls the provider at most once and a scan
\* requests each page number at most once; the first failure of the host or
\* of the provider ends the request with a 500 error response and no
\* further call.
C17_NoRetries == []C17_AtMostOnce /\ [][C17_FailureEnds]_vars

\* the provider call of a request failed and the request was answered 500
C17_Witness ==
  /\ lastResp.kind = "analyze" /\ lastResp.status = 500
  /\ lastResp.calls = 1 /\ lastResp.outcome.failed

\* the store is there and cannot be read or parsed
Unreadable(f) == f.exists /\ ~f.parses

\* C18: loadCache returns the empty cache when there is no store and when
\* reading or parsing it fails; with an unreadable store hasRepo is false
\* of every identifier and /analyze, given both fields, answers 404.
C18_UnreadableStoreIsEmpty ==
  /\ (~file.exists \/ Unreadable(file)) => loadCache(file) = EmptyObject
  /\ loadCacheFrom(file, FALSE) = EmptyObject
  /\ Unreadable(file) =>
       /\ \A k \in RepoKeys : ~hasRepo(file, k)
       /\ (lastResp.kind = "analyze" /\ lastResp.status # 400)
            => lastResp.status = 404

\* C19: a failing cache write is not hidden: when the write of a scan
\* fails, saveCache throws its persistence error, storeIssues lets it pass
\* and /scan answers 500 with cached_successfully false, never 200; a 200
\* is sent only after a write that succeeded.
C19_WriteFailureSurfaces ==
  /\ (lastResp.kind = "scan" /\ lastResp.write = "failed")
       => /\ lastResp.status = 500 /\ lastResp.error
          /\ lastResp.cached_successfully = "false"
          /\ lastResp.message = <<"Failed to save cache to file">>
  /\ (lastResp.kind = "scan" /\ lastResp.status = 200) => lastResp.write = "ok"

\* a scan fetched issues and the write of them failed
C19_Witness ==
  /\ lastResp.kind = "scan" /\ lastResp.status = 500
  /\ lastResp.write = "failed" /\ lastResp.nonPr = 3

\* C20: storeIssues changes the entry of its repository only: when it has
\* ended, by returning, by throwing or by the process dying between its
\* load and its save, every other repository that had an entry still has
\* it, unchanged.
C20_StoreKeepsOtherEntries ==
  st.pc \in {"stored", "threw", "interrupted"} =>
    \A k \in OwnKeys(st.before) \ {st.repo} :
      /\ k \in OwnKeys(loadCache(file))
      /\ loadCache(file).at[k] = st.before.at[k]

C22_LastWriterWins ==
  /\ (lastResp.kind = "scan" /\ lastResp.status = 200) =>
       /\ getIssues(file, lastResp.repo).kind = "entry"
       /\ getIssues(file, lastResp.repo).entry.issues = lastResp.issues
       /\ Len(lastResp.issues) = lastResp.nonPr
  /\ \A k \in RepoKeys :
       scanned[k].ok => getIssues(file, k).entry.issues = scanned[k].issues

\* the scan of a/b that started first stores last, over the different
\* result of a scan of a/b that started after it and stored before it
C22_Witness ==
  /\ lastResp.kind = "scan" /\ lastResp.status = 200 /\ lastResp.repo = RepoAB
  /\ ~lastResp.later /\ lastResp.sameStored
  /\ lastResp.prev.ok /\ lastResp.prev.issues # lastResp.issues
  /\ Len(lastResp.prev.issues) > 0 /\ Len(lastResp.issues) > 0


\* the ids of the items of the pages that are no pull requests, page after
\* page and in the order of each page
RECURSIVE IssueIdsOf(_)
IssueIdsOf(pages) ==
  IF pages = <<>> THEN <<>>
  ELSE LET page == Head(pages)
           keep(item) == ~item.pull_request
       IN  [i \in 1..Len(SelectSeq(page, keep)) |-> SelectSeq(page, keep)[i].id]
             \o IssueIdsOf(Tail(pages))

IdsOf(issues) == [i \in 1..Len(issues) |-> issues[i].id]

\* C23: a fetch in flight has requested the pages 1, 2, ... up to its current
\* one, each with state=open and per_page=100, has received a non-empty page
\* for each but the current one, and holds the non-pull-request items of those
\* pages in page order and in-page order; a scan that reached the empty page
\* requested one page more than it received non-empty ones and returned the
\* non-pull-request items of all of them, whether or not a page held pull
\* requests only.
C23_PagesInOrder ==
  /\ \A s \in Slots :
       req[s].pc = "fetch" =>
         /\ req[s].asked = [i \in 1..req[s].page |-> i]
         /\ req[s].query = [state |-> "open", per_page |-> 100]
         /\ Len(req[s].got) = req[s].page - 1
         /\ \A i \in 1..Len(req[s].got) : Len(req[s].got[i]) > 0
         /\ IdsOf(req[s].issues) = IssueIdsOf(req[s].got)
  /\ (lastResp.kind = "scan" /\ lastResp.write # "none") =>
       /\ lastResp.asked = [i \in 1..(Len(lastResp.got) + 1) |-> i]
       /\ IdsOf(lastResp.issues) = IssueIdsOf(lastResp.got)
       /\ lastResp.status = 200 =>
            /\ lastResp.issues_fetched = Len(IssueIdsOf(lastResp.got))
            /\ IdsOf(Cached(lastResp.repo).entry.issues) = IssueIdsOf(lastResp.got)

\* a scan answered 200 whose first page held a pull request alone and whose
\* later pages held issues
C23_Witness ==
  /\ lastResp.kind = "scan"
  /\ lastResp.status = 200
  /\ Len(lastResp.got) = 3
  /\ lastResp.got[1] = <<PullRequest>>
  /\ lastResp.got[2] = <<IssueWithBody, IssueEmptyBody>>
  /\ lastResp.got[3] = <<IssueNoBody, PullRequest>>
  /\ IdsOf(lastResp.issues) = <<12, 4, 1>>


\* the text of a rendered prompt between the n-th token `from` and the n-th
\* token `to`
Field(text, from, to, n) ==
  SubSeq(text, NthPlace(text, from, n) + 1, NthPlace(text, to, n) - 1)

\* C24: the payload analyzeIssues sends is the intro line with the repository
\* name, then the instruction as given, then the heading, then one block for
\* each issue in the order given, each with the id, title, body, URL and
\* creation time of its issue in that order, then the closing directive; it
\* has as many blocks as there are issues.
C24_PayloadOrder ==
  eng.pc \in {"awaiting", "done"} =>
    LET text == eng.sent
        n == Len(eng.issues)
        intro == 1 + Len(RepoAB) + 1
        heading == intro + 2
    IN  /\ Len(text) >= heading + 1
        /\ text[1] = "Analyze the following GitHub issues from the repository '"
        /\ SubSeq(text, 2, intro - 1) = RepoAB
        /\ text[intro] = "'.\n\n"
        /\ SubSeq(text, intro + 1, heading - 1) = <<"p">>
        /\ text[heading] = "\n\nHere are the issues:\n\n"
        /\ text[Len(text)]
             = "\n\nPlease provide a comprehensive analysis based on the request above."
        /\ Blocks(text) = n
        /\ \A tok \in {"\nTitle: ", "\nBody: ", "\nURL: ", "\nCreated: ", "\n---"} :
             Cardinality(Places(text, tok)) = n
        /\ \A i \in 1..n :
             /\ NthPlace(text, "\nIssue ID: ", i) > heading
             /\ NthPlace(text, "\n---", i) < Len(text)
             /\ i < n => NthPlace(text, "\n---", i) < NthPlace(text, "\nIssue ID: ", i + 1)
             /\ Field(text, "\nIssue ID: ", "\nTitle: ", i) = NumToString(eng.issues[i].id)
             /\ Field(text, "\nTitle: ", "\nBody: ", i) = eng.issues[i].title
             /\ Field(text, "\nBody: ", "\nURL: ", i) = BodyText(eng.issues[i])
             /\ Field(text, "\nURL: ", "\nCreated: ", i) = eng.issues[i].html_url
             /\ Field(text, "\nCreated: ", "\n---", i) = eng.issues[i].created_at

\* a payload of two issue blocks has been sent
C24_Witness ==
  /\ eng.pc = "awaiting"
  /\ Len(eng.issues) = 2
  /\ Blocks(eng.sent) = 2
  /\ Field(eng.sent, "\nIssue ID: ", "\nTitle: ", 2) = NumToString(eng.issues[2].id)


\* C25: a step in which /scan answers an error before any write of the store
\* (a validation error, or a failed request for any page) leaves the file,
\* and with it what getIssues returns for the repository, as it was.
C25_FailedScanKeepsCache ==
  [][(lastResp'.kind = "scan" /\ lastResp'.status # 200 /\ lastResp'.write = "none")
       => /\ file' = file
          /\ getIssues(file', lastResp'.repo) = getIssues(file, lastResp'.repo)]_vars

\* a re-scan of a/b failed on its second page, after a page of one issue,
\* and the three issues of the previous scan are still cached
C25_Witness ==
  /\ lastResp.kind = "scan" /\ lastResp.status = 500 /\ lastResp.upstream.failed
  /\ lastResp.repo = RepoAB
  /\ lastResp.asked = <<1, 2>> /\ Len(lastResp.issues) = 1
  /\ scanned[RepoAB].ok
  /\ Len(scanned[RepoAB].issues) = 3
  /\ Cached(RepoAB).kind = "entry"
  /\ Cached(RepoAB).entry.issues = scanned[RepoAB].issues


\* the number of slashes of a string
Slashes(s) == Cardinality(Places(s, Slash))

\* C26: /scan answers 400 exactly for a repo that is missing, empty or has
\* not exactly one slash, and then it has sent no request to the host and
\* has neither read nor written the store: the step that answers 400 starts
\* no fetch and leaves the file alone, and every fetch in flight is for a
\* repo that passed the validation.
C26_ValidationFirst ==
  /\ [](/\ \A s \in Slots : req[s].pc = "fetch" => Slashes(req[s].repo) = 1
        /\ lastResp.kind = "scan" =>
             /\ lastResp.status = 400 <=> Slashes(lastResp.repo) # 1
             /\ lastResp.status = 400 =>
                  /\ lastResp.asked = <<>> /\ lastResp.got = <<>>
                  /\ lastResp.read = NothingRead
                  /\ lastResp.write = "none")
  /\ [][(lastResp'.kind = "scan" /\ lastResp'.status = 400)
          => (file' = file /\ req' = req /\ scanned' = scanned)]_vars

\* /scan answered 400 for a repo without a slash while a/b was cached
C26_Witness ==
  /\ lastResp.kind = "scan" /\ lastResp.status = 400
  /\ lastResp.repo # <<>> /\ Slashes(lastResp.repo) = 0
  /\ scanned[RepoAB].ok
  /\ Cached(RepoAB).kind = "entry"


\* C27: hasRepo is true of a repository identifier exactly when getIssues
\* returns a cached repository for it.
C27_HasIffGet ==
  \A k \in RepoKeys : hasRepo(file, k) <=> Cached(k).kind = "entry"


C29_AnalyzeReadsWholeScan ==
  [][/\ \A s \in Slots :
          /\ (req[s].pc # "llm" /\ req'[s].pc = "llm") =>
               /\ scanned[req'[s].repo].ok
               /\ req'[s].issues = scanned[req'[s].repo].issues
               /\ Blocks(req'[s].sent) = Len(req'[s].issues)
               /\ file' = file
          /\ (req[s].pc = "llm" /\ req'[s].pc = "llm") =>
               /\ req'[s].issues = req[s].issues
               /\ req'[s].sent = req[s].sent
          /\ (req[s].pc = "llm" /\ req'[s].pc # "llm") =>
               /\ lastResp'.kind = "analyze"
               /\ lastResp'.issues = req[s].issues
     /\ lastResp'.kind = "analyze" => file' = file]_vars

\* /analyze answers 200 for the three issues of the previous scan of a/b
\* after a re-scan stored another sequence while the provider call was
\* pending
C29_Witness ==
  /\ lastResp.kind = "analyze" /\ lastResp.status = 200 /\ lastResp.calls = 1
  /\ lastResp.repo = RepoAB
  /\ lastResp.sameStored
  /\ Len(lastResp.issues) = 3
  /\ scanned[RepoAB].issues # lastResp.issues
  /\ Cached(RepoAB).entry.issues = scanned[RepoAB].issues


\* C30: a fetch goes on for as long as the pages it receives are non-empty:
\* a step of a fetch in flight either receives a non-empty page and requests
\* the next one, or ends the fetch, and it ends it only with a failed
\* request or with the empty page, having then requested exactly one page
\* more than it received non-empty ones; no number of pages ends it.
C30_EndsAtEmptyPageOnly ==
  [][\A s \in Slots :
       req[s].pc = "fetch" =>
         \/ req'[s] = req[s]
         \/ /\ req'[s].pc = "fetch"
            /\ Len(req'[s].got) = Len(req[s].got) + 1
            /\ Len(req'[s].got[Len(req'[s].got)]) > 0
            /\ req'[s].page = req[s].page + 1
            /\ req'[s].asked = Append(req[s].asked, req[s].page + 1)
            /\ lastResp'.kind = "none"
         \/ /\ req'[s].pc = "idle"
            /\ lastResp'.kind = "scan"
            /\ lastResp'.got = req[s].got
            /\ lastResp'.asked = req[s].asked
            /\ \/ lastResp'.upstream.failed
               \/ /\ lastResp'.write # "none"
                  /\ Len(lastResp'.asked) = Len(lastResp'.got) + 1]_vars

\* a scan answered 200 after as many non-empty pages as the host serves and
\* one request more
C30_Witness ==
  /\ lastResp.kind = "scan" /\ lastResp.status = 200
  /\ Len(lastResp.got) = MaxPages
  /\ lastResp.asked = [i \in 1..(MaxPages + 1) |-> i]

====
